---- MODULE Spec2Model ----
(***************************************************************************)
(* A model of the task execution core of the Orbital kernel: the process   *)
(* table (kernel/src/process.rs), the round-robin scheduler                *)
(* (kernel/src/scheduler.rs), the timer interrupt path                     *)
(* (kernel/src/interrupts.rs, kernel/src/context_switch.rs), the process   *)
(* syscalls (kernel/src/syscall.rs), the IPC ring buffer                   *)
(* (kernel/src/ipc.rs), the ELF loader (kernel/src/elf_loader.rs,          *)
(* kernel/src/binary_loader.rs) and the task context                       *)
(* (kernel/src/process.rs, kernel/src/context_switch.rs).                  *)
(*                                                                         *)
(* Spec      the kernel on its single core: one thread of task/shell       *)
(*           context whose handlers advance one lock-protected operation   *)
(*           at a time, and the timer interrupt, which can arrive between  *)
(*           any two of those steps (also while the interrupted code       *)
(*           holds a spin lock).                                           *)
(* SpecRing  one RingBuffer with one producer and one consumer whose       *)
(*           enqueue/dequeue calls interleave at the granularity of the    *)
(*           atomic loads, the slot copy and the atomic store.             *)
(* SpecAbi, SpecSyscall, SpecWait                                          *)
(*           dispatch_syscall over the handlers' arguments, the process    *)
(*           syscalls one call at a time, and a waiter under the timer.    *)
(* SpecElf   parse_elf and load_binary applied to byte buffers.            *)
(* SpecContext  TaskContext::new and restore_context applied to contexts.  *)
(***************************************************************************)
EXTENDS Integers, Sequences, FiniteSets, TLC

VARIABLES
    table,              \* PROCESS_TABLE: Vec<Process>, in push order
    next_pid,           \* NEXT_PID of ProcessId::new
    ready_queue,        \* Scheduler.ready_queue
    current_process,    \* Scheduler.current_process (NoPid = None)
    time_counter,       \* Scheduler.time_counter
    elapsed_ticks,      \* ELAPSED_TICKS
    preemption_enabled, \* PREEMPTION_ENABLED
    pc,                 \* position of the task-context thread
    caller,             \* who called create_process
    pid,                \* the pid local of the running handler
    arg,                \* the argument of the running handler
    held,               \* spin lock held by the task-context thread
    irq,                \* "none", or the lock timer_interrupt_handler spins on
    ret,                \* result of the last completed call
    schedLog,           \* history: (prev, next) of every schedule() call
    createdOnly,        \* history: only create_process calls, all before the first schedule()
    exitMark,           \* history: what sys_exit marked, and when
    slots, write_index, read_index,      \* RingBuffer
    ppc, pmsg, pwrite, pread,            \* producer inside enqueue()
    cpc, cmsg, cread, cwrite,            \* consumer inside dequeue()
    accepted, returned, pres, cres,      \* history: messages accepted / returned, last results
    createLog,          \* history: the ids successful create_process calls returned
    input_buffer,       \* INPUT_BUFFER of input.rs
    sc,                 \* the dispatch_syscall frame: the call and what it returned
    loader,             \* the last parse_elf / load_binary call: input and result
    task_context,       \* the last TaskContext::new call: arguments and result
    cpu,                \* the registers when restore_context jumps
    second,             \* a second caller of enqueue() on the same RingBuffer
    probe               \* the last depth() / is_empty() call: what it returned

kvars == <<table, next_pid, ready_queue, current_process, time_counter,
           elapsed_ticks, preemption_enabled, pc, caller, pid, arg, held, irq,
           ret, schedLog, createdOnly, exitMark, createLog>>

rvars == <<slots, write_index, read_index, ppc, pmsg, pwrite, pread,
           cpc, cmsg, cread, cwrite, accepted, returned, pres, cres>>

svars == <<input_buffer, sc>>

lvars == <<loader, task_context, cpu>>

xvars == <<second, probe>>

vars == <<kvars, rvars, svars, lvars, xvars>>

----------------------------------------------------------------------------
(* Bounds of the model.  The source fixes the table at 256 entries and the *)
(* quantum at 100 ticks; the model scales both down.                       *)

\* process.rs:177 caps the table at 256 entries; the model caps it here.
TableCap == 2

\* scheduler.rs:61 sets time_quantum to 100 ticks; the model uses this many.
TimeQuantum == 2

\* Timer interrupts considered in one run.
MaxTicks == 6

\* Test tasks of tasks.rs used as entry points (1..MaxTask).
MaxTask == 1

\* input.rs:17 gives INPUT_BUFFER 256 slots; the model gives it this many.
InputCap == 2

NoPid == 0

----------------------------------------------------------------------------
(* ProcessStatus                                                           *)

Ready == [tag |-> "Ready", code |-> 0]

Running == [tag |-> "Running", code |-> 0]

Blocked == [tag |-> "Blocked", code |-> 0]

Exited(c) == [tag |-> "Exited", code |-> c]

NoStatus == [tag |-> "None", code |-> 0]

\* Exit codes passed to sys_exit.
ExitCodes == {-1, 0, 1}

\* the value task_fn() returns: entry points 1..4 are the test tasks of
\* tasks.rs, entry point 4 + k is a caller-supplied function returning -k
TaskReturn(e) == CASE e = 1 -> 0
                   [] e = 2 -> 1
                   [] e = 3 -> 42
                   [] e = 4 -> 0
                   [] OTHER -> 4 - e

\* the counter is not advanced
FetchAdd_NoIncrement(n) == n

\* ProcessId::new: NEXT_PID after fetch_add(1)
FetchAdd(n) == n + 1

\* the capacity check lets one more process in
TableFull_OffByOne(tbl) == Len(tbl) > TableCap

\* create_process: processes.len() >= 256
TableFull(tbl) == Len(tbl) >= TableCap

\* the exit code is dropped
ExitCodeOf_Zero(st) == 0

\* wait_process: ProcessStatus::Exited(code) => code
ExitCodeOf(st) == st.code

\* Process::new
NewProcess(id, entry) == [id |-> id, entry_point |-> entry, status |-> Ready]

\* processes.iter().find(|p| p.id.0 == pid): index of the first match, 0 if none
Find(tbl, p) ==
    IF \E i \in 1..Len(tbl) : tbl[i].id = p
    THEN CHOOSE i \in 1..Len(tbl) :
            tbl[i].id = p /\ \A j \in 1..(i - 1) : tbl[j].id # p
    ELSE 0

\* get_process_status
GetProcessStatus(tbl, p) ==
    IF Find(tbl, p) = 0 THEN NoStatus ELSE tbl[Find(tbl, p)].status

\* set_process_status
\* set_process_status that drops the entry of a process once it has exited
SetProcessStatus_Prune(tbl, p, s) ==
    IF Find(tbl, p) = 0 THEN tbl
    ELSE IF s.tag = "Exited" THEN SelectSeq(tbl, LAMBDA e : e.id # p)
    ELSE [tbl EXCEPT ![Find(tbl, p)].status = s]

SetProcessStatus(tbl, p, s) ==
    IF Find(tbl, p) = 0 THEN tbl
    ELSE [tbl EXCEPT ![Find(tbl, p)].status = s]

\* execute_all_ready: the first process whose status is Ready, NoPid if none
FirstReady(tbl) ==
    IF \E i \in 1..Len(tbl) : tbl[i].status = Ready
    THEN tbl[CHOOSE i \in 1..Len(tbl) :
                tbl[i].status = Ready /\ \A j \in 1..(i - 1) : tbl[j].status # Ready].id
    ELSE NoPid

----------------------------------------------------------------------------
(* Scheduler                                                               *)

Contains(q, p) == \E i \in 1..Len(q) : q[i] = p

\* Scheduler::enqueue
Enqueue(q, p) == IF Contains(q, p) THEN q ELSE Append(q, p)

\* Scheduler::dequeue: the popped id (NoPid when empty) and the rest
DequeueHead(q) == IF Len(q) = 0 THEN NoPid ELSE Head(q)

DequeueRest(q) == IF Len(q) = 0 THEN q ELSE Tail(q)

\* the quantum expires one tick late
Tick_Late(tc) ==
    IF tc + 1 > TimeQuantum
    THEN [counter |-> 0, expired |-> TRUE]
    ELSE [counter |-> tc + 1, expired |-> FALSE]

\* Scheduler::tick: the new counter and whether the quantum expired
Tick(tc) ==
    IF tc + 1 >= TimeQuantum
    THEN [counter |-> 0, expired |-> TRUE]
    ELSE [counter |-> tc + 1, expired |-> FALSE]

\* check_quantum_expired: sched.time_counter >= sched.time_quantum, read only
CheckQuantumExpired(tc) == tc >= TimeQuantum

\* Scheduler::schedule, first half: the queue after the current process
\* was put back (only a process whose table status is Running is)
Requeue(q, cur, tbl) ==
    IF cur # NoPid /\ GetProcessStatus(tbl, cur) = Running
    THEN Enqueue(q, cur)
    ELSE q

\* Scheduler::schedule
Schedule(q, cur, tbl) ==
    [prev |-> cur,
     next |-> DequeueHead(Requeue(q, cur, tbl)),
     queue |-> DequeueRest(Requeue(q, cur, tbl))]

\* schedule(): the locks held at once at its deepest point: SCHEDULER, and
\* PROCESS_TABLE inside get_process_status when there is a current process
ScheduleLocks(cur) == IF cur # NoPid THEN {"sched", "table"} ELSE {"sched"}

\* context_switch::context_switch: the table after the switch
ContextSwitch(tbl, prev, next) == tbl

----------------------------------------------------------------------------
(* The syscall ABI                                                         *)

\* Width of usize and i64 (64 bits in the source; the model has WordBits).
WordBits == 16

\* `x as usize` of an i64
AsUsize(c) == c % (2 ^ WordBits)

\* `x as i64` of a usize
AsI64(v) == IF v >= 2 ^ (WordBits - 1) THEN v - (2 ^ WordBits) ELSE v

\* SysError, by its #[repr(i64)] discriminant
Invalid == -1

NotImplemented == -2

Fault == -3

PermissionDenied == -4

NotFound == -5

Error == -6

BadFd == -9

\* SysResult = Result<usize, SysError>
Ok(v) == [ok |-> TRUE, val |-> v]

Err(e) == [ok |-> FALSE, val |-> e]

\* dispatch_syscall: Ok(ret) => ret as i64, Err(e) => e.to_return_value()
ToReturnValue(r) == IF r.ok THEN AsI64(r.val) ELSE r.val

\* a table with sys_log and sys_write exchanged
SYSCALL_TABLE_Swapped ==
    <<"sys_hello", "sys_write", "sys_log", "sys_exit", "sys_read",
      "sys_task_create", "sys_task_wait", "sys_get_pid", "sys_ps", "sys_uptime">>

\* SYSCALL_TABLE; entry n + 1 is the handler of syscall number n
SYSCALL_TABLE ==
    <<"sys_hello", "sys_log", "sys_write", "sys_exit", "sys_read",
      "sys_task_create", "sys_task_wait", "sys_get_pid", "sys_ps", "sys_uptime">>

\* SYSCALL_TABLE.get(syscall_nr).and_then(|h| h.as_ref())
Handler(nr) ==
    IF nr >= 0 /\ nr < Len(SYSCALL_TABLE) THEN SYSCALL_TABLE[nr + 1] ELSE "none"

\* sys_hello: the magic number and the reply (0xCAFEBABE and 0xDEADBEEF in
\* the source; the model keeps the leading byte of each)
HelloMagic == 202

HelloReply == 222

\* a non-null user pointer
UserBuf == 4096

\* sys_hello
SysHello(a1) == IF a1 = HelloMagic THEN Ok(HelloReply) ELSE Err(Invalid)

\* the largest length sys_log, sys_write and sys_read accept
MaxLogLen == 4096

MaxWriteLen == 4096

MaxReadLen == 4096

\* sys_log that puts no upper limit on the length
SysLog_NoUpperLimit(ptr, len) ==
    IF len = 0 THEN Err(Invalid)
    ELSE IF ptr = 0 THEN Err(Fault)
    ELSE Ok(len)

\* sys_log: the length, then the pointer; Ok(len) once the bytes went to the TTY
SysLog(ptr, len) ==
    IF len = 0 THEN Err(Invalid)
    ELSE IF len > MaxLogLen THEN Err(Invalid)
    ELSE IF ptr = 0 THEN Err(Fault)
    ELSE Ok(len)

\* tty.rs: the largest buffer tty_write takes
TTY_MAX_WRITE == 4096

\* no tty_write call was made
NoTty == [called |-> FALSE, len |-> 0, newline |-> FALSE, result |-> "none"]

\* tty_write(buf) with buf.len() = len: a panic above TTY_MAX_WRITE, else
\* the bytes go to the serial port (none when the buffer is empty)
TtyWrite(len) ==
    [called |-> TRUE, len |-> len, newline |-> FALSE,
     result |-> IF len > TTY_MAX_WRITE THEN "panic" ELSE "Ok"]

\* tty_write_with_newline(buf): tty_write(buf), then the newline byte
TtyWriteWithNewline(len) ==
    [TtyWrite(len) EXCEPT !.newline = (TtyWrite(len).result = "Ok")]

\* sys_log: the tty call it makes once its checks passed
SysLogTty(ptr, len) ==
    IF SysLog(ptr, len).ok THEN TtyWriteWithNewline(len) ELSE NoTty

\* sys_write that validates the length before the descriptor
SysWrite_LengthFirst(fd, ptr, len) ==
    IF len = 0 \/ len > MaxWriteLen THEN Err(Invalid)
    ELSE IF fd # 1 /\ fd # 2 THEN Err(BadFd)
    ELSE IF ptr = 0 THEN Err(Fault)
    ELSE Ok(len)

\* sys_write: the descriptor, the length, the pointer; Ok(len)
SysWrite(fd, ptr, len) ==
    IF fd # 1 /\ fd # 2 THEN Err(BadFd)
    ELSE IF len = 0 THEN Err(Invalid)
    ELSE IF len > MaxWriteLen THEN Err(Invalid)
    ELSE IF ptr = 0 THEN Err(Fault)
    ELSE Ok(len)

\* sys_write: the tty call it makes once its checks passed
SysWriteTty(fd, ptr, len) ==
    IF SysWrite(fd, ptr, len).ok THEN TtyWrite(len) ELSE NoTty

\* read_input that pops until the queue is empty, whatever the buffer holds
ReadInput_All(buf, len) == Len(buf)

\* read_input: the number of bytes popped into a buffer of len bytes
ReadInput(buf, len) == IF len < Len(buf) THEN len ELSE Len(buf)

\* sys_read: the result
SysRead(fd, ptr, len, buf) ==
    IF fd # 0 THEN Err(BadFd)
    ELSE IF len = 0 THEN Ok(0)
    ELSE IF len > MaxReadLen THEN Err(Invalid)
    ELSE IF ptr = 0 THEN Err(Fault)
    ELSE Ok(ReadInput(buf, len))

\* sys_read that pops the bytes before it looks at its arguments
SysReadRest_PopFirst(fd, ptr, len, buf) ==
    SubSeq(buf, ReadInput(buf, len) + 1, Len(buf))

\* sys_read: INPUT_BUFFER after the call
SysReadRest(fd, ptr, len, buf) ==
    IF SysRead(fd, ptr, len, buf).ok
    THEN SubSeq(buf, SysRead(fd, ptr, len, buf).val + 1, Len(buf))
    ELSE buf

\* sys_read: the bytes stored in the caller's buffer, in the order popped
SysReadBytes(fd, ptr, len, buf) ==
    IF SysRead(fd, ptr, len, buf).ok
    THEN SubSeq(buf, 1, SysRead(fd, ptr, len, buf).val)
    ELSE <<>>

\* sys_get_pid
SysGetPid(cur) == Ok(IF cur = NoPid THEN 1 ELSE cur)

\* sys_ps: the length of "{:3} {}\n" for one process
PsRowLen(p) ==
    (IF p.id < 1000 THEN 3 ELSE 4) + 1 +
    (CASE p.status.tag = "Ready" -> 5
       [] p.status.tag = "Running" -> 7
       [] p.status.tag = "Blocked" -> 7
       [] OTHER -> 6) + 1

RECURSIVE PsLen(_)
\* sys_ps: the length of "PID Status\n" and one row per process
PsLen(tbl) ==
    IF Len(tbl) = 0 THEN 11 ELSE PsLen(SubSeq(tbl, 1, Len(tbl) - 1)) + PsRowLen(tbl[Len(tbl)])

\* sys_ps: format!("{:3} {}\n", pid, status_str)
PsLine(p) ==
    (IF p.id < 10 THEN "  " ELSE IF p.id < 100 THEN " " ELSE "") \o ToString(p.id)
    \o " "
    \o (CASE p.status.tag = "Ready" -> "Ready"
           [] p.status.tag = "Running" -> "Running"
           [] p.status.tag = "Blocked" -> "Blocked"
           [] OTHER -> "Exited")
    \o "\n"

RECURSIVE PsText(_)
\* sys_ps: the output string, "PID Status\n" and one line per entry of
\* list_processes() in its order
PsText(tbl) ==
    IF Len(tbl) = 0 THEN "PID Status\n"
    ELSE PsText(SubSeq(tbl, 1, Len(tbl) - 1)) \o PsLine(tbl[Len(tbl)])

\* sys_ps that copies the output whatever the size of the buffer
SysPs_NoSizeCheck(ptr, len, tbl) ==
    IF ptr = 0 \/ len = 0 THEN Err(Invalid)
    ELSE Ok(PsLen(tbl))

\* sys_ps
SysPs(ptr, len, tbl) ==
    IF ptr = 0 \/ len = 0 THEN Err(Invalid)
    ELSE IF PsLen(tbl) > len THEN Err(Invalid)
    ELSE Ok(PsLen(tbl))

\* sys_ps: the bytes copied to the caller's buffer
SysPsBytes(ptr, len, tbl) == IF SysPs(ptr, len, tbl).ok THEN PsText(tbl) ELSE ""

\* timer ticks per second (get_elapsed_seconds)
TicksPerSecond == 100

\* sys_uptime
SysUptime(ticks) == Ok(ticks \div TicksPerSecond)

\* the kernel state a syscall may act on: the process table, the PID
\* counter, the scheduler's fields and the input queue
Frame ==
    <<table, next_pid, ready_queue, current_process, time_counter, input_buffer>>

\* no dispatch_syscall call is in progress, none was made
NoCall ==
    [pending |-> FALSE, nr |-> 0, args |-> <<0, 0, 0>>, handler |-> "none",
     result |-> Ok(0), retval |-> 0, bytes |-> <<>>, text |-> "", entry |-> <<>>,
     tty |-> NoTty]

\* dispatch_syscall(nr, a1, a2, a3, ..) found handler h and called it
Call(nr, a1, a2, a3) ==
    [pending |-> TRUE, nr |-> nr, args |-> <<a1, a2, a3>>, handler |-> Handler(nr),
     result |-> Ok(0), retval |-> 0, bytes |-> <<>>, text |-> "", entry |-> Frame,
     tty |-> NoTty]

\* the handler returned r to dispatch_syscall, which returns its conversion
Returned(c, r) ==
    [c EXCEPT !.pending = FALSE, !.result = r, !.retval = ToReturnValue(r),
              !.entry = <<>>]

\* a handler returns r: to dispatch_syscall when that called it
Completed(c, r) == IF c.pending THEN Returned(c, r) ELSE c

----------------------------------------------------------------------------
(* The task-context thread.  Every operation on PROCESS_TABLE or SCHEDULER *)
(* is lock(); body; unlock.  LockOf names the spin::Mutex the step at a    *)
(* position takes; the step itself runs with the lock held and drops it.   *)

LockOf(p) ==
    CASE p \in {"cp_push", "tc_set_ready", "ear_find", "ep_set_running",
                "ep_set_exited", "exit_set", "wait_poll"} -> "table"
      [] p \in {"cp_enqueue", "sp_enqueue", "tc_enqueue", "exit_current"} -> "sched"
      [] OTHER -> "none"

\* The thread is at position p, holds the lock of p, and was not interrupted for good.
At(p) == irq = "none" /\ pc = p /\ held = LockOf(p)

\* what a call returned: a value, or (ResultNone) an Option's None
Result(op, val) == [op |-> op, val |-> val, some |-> TRUE]

ResultNone(op) == [op |-> op, val |-> 0, some |-> FALSE]

\* the handler returns: its locals die
Return(r) ==
    /\ pc' = "idle"
    /\ caller' = "none"
    /\ pid' = NoPid
    /\ arg' = 0
    /\ ret' = r

\* spin::Mutex::lock(): table.lock() / scheduler.lock()
Lock ==
    /\ irq = "none"
    /\ LockOf(pc) # "none"
    /\ held = "none"
    /\ held' = LockOf(pc)
    /\ UNCHANGED <<table, next_pid, ready_queue, current_process, time_counter,
                   elapsed_ticks, preemption_enabled, pc, caller, pid, arg, irq,
                   ret, schedLog, createdOnly, exitMark>>
    /\ UNCHANGED rvars
    /\ UNCHANGED createLog
    /\ UNCHANGED svars
    /\ UNCHANGED lvars
    /\ UNCHANGED xvars

\* create_process(entry) called on its own (shell.rs:38, the unit tests)
CallCreateProcess(e) ==
    /\ At("idle")
    /\ IF e = 0
       THEN /\ Return(Result("create_process", -1))
            /\ UNCHANGED createdOnly
       ELSE /\ pc' = "cp_push"
            /\ caller' = "shell"
            /\ arg' = e
            /\ createdOnly' = (createdOnly /\ Len(schedLog) = 0)
            /\ UNCHANGED <<pid, ret>>
    /\ UNCHANGED <<table, next_pid, ready_queue, current_process, time_counter,
                   elapsed_ticks, preemption_enabled, held, irq, schedLog, exitMark>>
    /\ UNCHANGED rvars
    /\ UNCHANGED createLog
    /\ UNCHANGED svars
    /\ UNCHANGED lvars
    /\ UNCHANGED xvars

\* cmd_spawn: create_process(entry), then enqueue_process(pid) once more
CmdSpawn(e) ==
    /\ At("idle")
    /\ pc' = "cp_push"
    /\ caller' = "cmd_spawn"
    /\ arg' = e
    /\ createdOnly' = FALSE
    /\ UNCHANGED <<table, next_pid, ready_queue, current_process, time_counter,
                   elapsed_ticks, preemption_enabled, pid, held, irq, ret,
                   schedLog, exitMark>>
    /\ UNCHANGED rvars
    /\ UNCHANGED createLog
    /\ UNCHANGED svars
    /\ UNCHANGED lvars
    /\ UNCHANGED xvars

\* sys_task_create(entry): the entry check, then create_process
SysTaskCreate(e) ==
    /\ At("idle")
    /\ IF e = 0
       THEN Return(Result("sys_task_create", -1))
       ELSE /\ pc' = "cp_push"
            /\ caller' = "sys_task_create"
            /\ arg' = e
            /\ UNCHANGED <<pid, ret>>
    /\ createdOnly' = FALSE
    /\ UNCHANGED <<table, next_pid, ready_queue, current_process, time_counter,
                   elapsed_ticks, preemption_enabled, held, irq, schedLog, exitMark>>
    /\ UNCHANGED rvars
    /\ UNCHANGED createLog
    /\ UNCHANGED svars
    /\ UNCHANGED lvars
    /\ UNCHANGED xvars

\* create_process, under the table lock: the capacity check, Process::new, push
CreateProcessPush ==
    /\ At("cp_push")
    /\ held' = "none"
    /\ IF TableFull(table)
       THEN /\ Return(CASE caller = "shell" -> Result("create_process", -2)
                        [] caller = "cmd_spawn" -> Result("cmd_spawn", -2)
                        [] OTHER -> Result("sys_task_create", -6))
            /\ sc' = IF caller = "sys_task_create" THEN Completed(sc, Err(Error)) ELSE sc
            /\ UNCHANGED <<table, next_pid>>
       ELSE /\ table' = Append(table, NewProcess(next_pid, arg))
            /\ next_pid' = FetchAdd(next_pid)
            /\ pid' = next_pid
            /\ pc' = "cp_enqueue"
            /\ UNCHANGED <<caller, arg, ret, sc>>
    /\ UNCHANGED <<ready_queue, current_process, time_counter, elapsed_ticks,
                   preemption_enabled, irq, schedLog, createdOnly, exitMark>>
    /\ UNCHANGED rvars
    /\ UNCHANGED createLog
    /\ UNCHANGED input_buffer
    /\ UNCHANGED lvars
    /\ UNCHANGED xvars

\* create_process, after the table lock was dropped: enqueue_process(pid), return pid
CreateProcessEnqueue ==
    /\ At("cp_enqueue")
    /\ held' = "none"
    /\ ready_queue' = Enqueue(ready_queue, pid)
    /\ createLog' = Append(createLog, pid)
    /\ IF caller = "shell"
       THEN Return(Result("create_process", pid))
       ELSE /\ pc' = (IF caller = "cmd_spawn" THEN "sp_enqueue" ELSE "tc_enqueue")
            /\ UNCHANGED <<caller, pid, arg, ret>>
    /\ UNCHANGED <<table, next_pid, current_process, time_counter, elapsed_ticks,
                   preemption_enabled, irq, schedLog, createdOnly, exitMark>>
    /\ UNCHANGED rvars
    /\ UNCHANGED svars
    /\ UNCHANGED lvars
    /\ UNCHANGED xvars

\* cmd_spawn: if pid > 0 { enqueue_process(pid) }
SpawnEnqueue ==
    /\ At("sp_enqueue")
    /\ held' = "none"
    /\ ready_queue' = Enqueue(ready_queue, pid)
    /\ Return(Result("cmd_spawn", pid))
    /\ UNCHANGED <<table, next_pid, current_process, time_counter, elapsed_ticks,
                   preemption_enabled, irq, schedLog, createdOnly, exitMark>>
    /\ UNCHANGED rvars
    /\ UNCHANGED createLog
    /\ UNCHANGED svars
    /\ UNCHANGED lvars
    /\ UNCHANGED xvars

\* sys_task_create: enqueue_process(pid)
TaskCreateEnqueue ==
    /\ At("tc_enqueue")
    /\ held' = "none"
    /\ ready_queue' = Enqueue(ready_queue, pid)
    /\ pc' = "tc_set_ready"
    /\ UNCHANGED <<table, next_pid, current_process, time_counter, elapsed_ticks,
                   preemption_enabled, caller, pid, arg, irq, ret, schedLog,
                   createdOnly, exitMark>>
    /\ UNCHANGED rvars
    /\ UNCHANGED createLog
    /\ UNCHANGED svars
    /\ UNCHANGED lvars
    /\ UNCHANGED xvars

\* sys_task_create: set_process_status(pid, Ready); Ok(pid)
TaskCreateSetReady ==
    /\ At("tc_set_ready")
    /\ held' = "none"
    /\ table' = SetProcessStatus(table, pid, Ready)
    /\ Return(Result("sys_task_create", pid))
    /\ sc' = Completed(sc, Ok(pid))
    /\ UNCHANGED <<next_pid, ready_queue, current_process, time_counter,
                   elapsed_ticks, preemption_enabled, irq, schedLog, createdOnly,
                   exitMark>>
    /\ UNCHANGED rvars
    /\ UNCHANGED createLog
    /\ UNCHANGED input_buffer
    /\ UNCHANGED lvars
    /\ UNCHANGED xvars

\* execute_all_ready is called (cmd_run): executed = 0
ExecuteAllReady ==
    /\ At("idle")
    /\ pc' = "ear_find"
    /\ arg' = 0
    /\ createdOnly' = FALSE
    /\ UNCHANGED <<table, next_pid, ready_queue, current_process, time_counter,
                   elapsed_ticks, preemption_enabled, caller, pid, held, irq, ret,
                   schedLog, exitMark>>
    /\ UNCHANGED rvars
    /\ UNCHANGED createLog
    /\ UNCHANGED svars
    /\ UNCHANGED lvars
    /\ UNCHANGED xvars

\* execute_all_ready: find the next Ready process, or break and return executed
FindReady ==
    /\ At("ear_find")
    /\ held' = "none"
    /\ IF FirstReady(table) = NoPid
       THEN Return(Result("execute_all_ready", arg))
       ELSE /\ pid' = FirstReady(table)
            /\ pc' = "ep_set_running"
            /\ UNCHANGED <<caller, arg, ret>>
    /\ UNCHANGED <<table, next_pid, ready_queue, current_process, time_counter,
                   elapsed_ticks, preemption_enabled, irq, schedLog, createdOnly,
                   exitMark>>
    /\ UNCHANGED rvars
    /\ UNCHANGED createLog
    /\ UNCHANGED svars
    /\ UNCHANGED lvars
    /\ UNCHANGED xvars

\* execute_process: mark the process Running and read its entry point
SetRunning ==
    /\ At("ep_set_running")
    /\ held' = "none"
    /\ IF Find(table, pid) = 0
       THEN /\ pc' = "ear_find"
            /\ arg' = arg + 1
            /\ UNCHANGED table
       ELSE /\ table' = SetProcessStatus(table, pid, Running)
            /\ pc' = "ep_run"
            /\ UNCHANGED arg
    /\ UNCHANGED <<next_pid, ready_queue, current_process, time_counter,
                   elapsed_ticks, preemption_enabled, caller, pid, irq, ret,
                   schedLog, createdOnly, exitMark>>
    /\ UNCHANGED rvars
    /\ UNCHANGED createLog
    /\ UNCHANGED svars
    /\ UNCHANGED lvars
    /\ UNCHANGED xvars

\* execute_process: task_fn() runs on the caller's stack and returns
RunTask ==
    /\ At("ep_run")
    /\ pc' = "ep_set_exited"
    /\ UNCHANGED <<table, next_pid, ready_queue, current_process, time_counter,
                   elapsed_ticks, preemption_enabled, caller, pid, arg, held, irq,
                   ret, schedLog, createdOnly, exitMark>>
    /\ UNCHANGED rvars
    /\ UNCHANGED createLog
    /\ UNCHANGED svars
    /\ UNCHANGED lvars
    /\ UNCHANGED xvars

\* execute_process forgets to stamp the exit status
ExitedStatus_StillRunning(tbl, p) == Running

\* the status execute_process stamps once the task function returned
ExitedStatus(tbl, p) == Exited(TaskReturn(tbl[Find(tbl, p)].entry_point))

\* execute_process: set_process_status(pid, Exited(exit_code)); executed += 1
SetExited ==
    /\ At("ep_set_exited")
    /\ held' = "none"
    /\ table' = SetProcessStatus(table, pid, ExitedStatus(table, pid))
    /\ arg' = arg + 1
    /\ pc' = "ear_find"
    /\ UNCHANGED <<next_pid, ready_queue, current_process, time_counter,
                   elapsed_ticks, preemption_enabled, caller, pid, irq, ret,
                   schedLog, createdOnly, exitMark>>
    /\ UNCHANGED rvars
    /\ UNCHANGED createLog
    /\ UNCHANGED svars
    /\ UNCHANGED lvars
    /\ UNCHANGED xvars

\* sys_exit(code) is entered
SysExit(c) ==
    /\ At("idle")
    /\ pc' = "exit_current"
    /\ arg' = c
    /\ createdOnly' = FALSE
    /\ UNCHANGED <<table, next_pid, ready_queue, current_process, time_counter,
                   elapsed_ticks, preemption_enabled, caller, pid, held, irq, ret,
                   schedLog, exitMark>>
    /\ UNCHANGED rvars
    /\ UNCHANGED createLog
    /\ UNCHANGED svars
    /\ UNCHANGED lvars
    /\ UNCHANGED xvars

\* sys_exit: scheduler::current_process(); Err(NotFound) when there is none
ExitCurrent ==
    /\ At("exit_current")
    /\ held' = "none"
    /\ IF current_process = NoPid
       THEN /\ Return(Result("sys_exit", -5))
            /\ sc' = Completed(sc, Err(NotFound))
       ELSE /\ pid' = current_process
            /\ pc' = "exit_set"
            /\ UNCHANGED <<caller, arg, ret, sc>>
    /\ UNCHANGED <<table, next_pid, ready_queue, current_process, time_counter,
                   elapsed_ticks, preemption_enabled, irq, schedLog, createdOnly,
                   exitMark>>
    /\ UNCHANGED rvars
    /\ UNCHANGED createLog
    /\ UNCHANGED input_buffer
    /\ UNCHANGED lvars
    /\ UNCHANGED xvars

\* sys_exit: set_process_status(current_pid, Exited(code)); hlt_loop()
ExitSet ==
    /\ At("exit_set")
    /\ held' = "none"
    /\ table' = SetProcessStatus(table, pid, Exited(arg))
    /\ pc' = "halted"
    /\ exitMark' = [pid |-> pid, code |-> arg, at |-> Len(schedLog),
                    current |-> current_process]
    /\ UNCHANGED <<next_pid, ready_queue, current_process, time_counter,
                   elapsed_ticks, preemption_enabled, caller, pid, arg, irq, ret,
                   schedLog, createdOnly>>
    /\ UNCHANGED rvars
    /\ UNCHANGED createLog
    /\ UNCHANGED svars
    /\ UNCHANGED lvars
    /\ UNCHANGED xvars

\* disable_preemption (kernel_main)
DisablePreemption ==
    /\ At("idle")
    /\ preemption_enabled
    /\ preemption_enabled' = FALSE
    /\ UNCHANGED <<table, next_pid, ready_queue, current_process, time_counter,
                   elapsed_ticks, pc, caller, pid, arg, held, irq, ret, schedLog,
                   createdOnly, exitMark>>
    /\ UNCHANGED rvars
    /\ UNCHANGED createLog
    /\ UNCHANGED svars
    /\ UNCHANGED lvars
    /\ UNCHANGED xvars

\* enable_preemption
EnablePreemption ==
    /\ At("idle")
    /\ ~preemption_enabled
    /\ preemption_enabled' = TRUE
    /\ UNCHANGED <<table, next_pid, ready_queue, current_process, time_counter,
                   elapsed_ticks, pc, caller, pid, arg, held, irq, ret, schedLog,
                   createdOnly, exitMark>>
    /\ UNCHANGED rvars
    /\ UNCHANGED createLog
    /\ UNCHANGED svars
    /\ UNCHANGED lvars
    /\ UNCHANGED xvars

\* sys_task_wait(p): the pid check, then wait_process(p)
SysTaskWait(p) ==
    /\ At("idle")
    /\ IF p = 0
       THEN Return(Result("sys_task_wait", Invalid))
       ELSE /\ pc' = "wait_poll"
            /\ caller' = "sys_task_wait"
            /\ arg' = p
            /\ UNCHANGED <<pid, ret>>
    /\ createdOnly' = FALSE
    /\ UNCHANGED <<table, next_pid, ready_queue, current_process, time_counter,
                   elapsed_ticks, preemption_enabled, held, irq, schedLog, exitMark>>
    /\ UNCHANGED rvars
    /\ UNCHANGED createLog
    /\ UNCHANGED svars
    /\ UNCHANGED lvars
    /\ UNCHANGED xvars

\* wait_process, under the table lock: None when the pid is not in the
\* table, Some(code) when its status is Exited(code), else drop the lock;
\* sys_task_wait turns None into NotFound and Some(code) into Ok(code as usize)
WaitPoll ==
    /\ At("wait_poll")
    /\ held' = "none"
    /\ IF Find(table, arg) = 0
       THEN /\ Return(ResultNone("wait_process"))
            /\ sc' = Completed(sc, Err(NotFound))
       ELSE IF GetProcessStatus(table, arg).tag = "Exited"
       THEN /\ Return(Result("wait_process",
                             ExitCodeOf(GetProcessStatus(table, arg))))
            /\ sc' = Completed(sc,
                        Ok(AsUsize(ExitCodeOf(GetProcessStatus(table, arg)))))
       ELSE /\ pc' = "wait_spin"
            /\ UNCHANGED <<caller, pid, arg, ret, sc>>
    /\ UNCHANGED <<table, next_pid, ready_queue, current_process, time_counter,
                   elapsed_ticks, preemption_enabled, irq, schedLog, createdOnly,
                   exitMark>>
    /\ UNCHANGED rvars
    /\ UNCHANGED createLog
    /\ UNCHANGED input_buffer
    /\ UNCHANGED lvars
    /\ UNCHANGED xvars

\* wait_process: the busy-wait of 1000 spin_loop hints, then poll again
WaitSpin ==
    /\ At("wait_spin")
    /\ pc' = "wait_poll"
    /\ UNCHANGED <<table, next_pid, ready_queue, current_process, time_counter,
                   elapsed_ticks, preemption_enabled, caller, pid, arg, held, irq,
                   ret, schedLog, createdOnly, exitMark>>
    /\ UNCHANGED rvars
    /\ UNCHANGED createLog
    /\ UNCHANGED svars
    /\ UNCHANGED lvars
    /\ UNCHANGED xvars

\* add_input_char: a key press reaches INPUT_BUFFER (dropped when it is full)
AddInputChar(ch) ==
    /\ At("idle")
    /\ input_buffer' = IF Len(input_buffer) >= InputCap
                       THEN input_buffer
                       ELSE Append(input_buffer, ch)
    /\ UNCHANGED kvars
    /\ UNCHANGED rvars
    /\ UNCHANGED sc
    /\ UNCHANGED lvars
    /\ UNCHANGED xvars

\* dispatch_syscall(nr, a1, a2, a3, _, _, _): look the handler up and call
\* it.  A handler that takes at most one lock returns within the step;
\* sys_exit, sys_task_create and sys_task_wait go on in the steps above.
DispatchSyscall(nr, a1, a2, a3) ==
    /\ At("idle")
    /\ LET c == Call(nr, a1, a2, a3)
           h == Handler(nr)
       IN  /\ sc' = CASE h = "none" ->
                            [c EXCEPT !.pending = FALSE, !.retval = NotImplemented,
                                      !.entry = <<>>]
                      [] h = "sys_hello" -> Returned(c, SysHello(a1))
                      [] h = "sys_log" ->
                            [Returned(c, SysLog(a1, a2))
                                EXCEPT !.tty = SysLogTty(a1, a2)]
                      [] h = "sys_write" ->
                            [Returned(c, SysWrite(a1, a2, a3))
                                EXCEPT !.tty = SysWriteTty(a1, a2, a3)]
                      [] h = "sys_read" ->
                            [Returned(c, SysRead(a1, a2, a3, input_buffer))
                                EXCEPT !.bytes = SysReadBytes(a1, a2, a3, input_buffer)]
                      [] h = "sys_get_pid" -> Returned(c, SysGetPid(current_process))
                      [] h = "sys_ps" ->
                            [Returned(c, SysPs(a1, a2, table))
                                EXCEPT !.text = SysPsBytes(a1, a2, table)]
                      [] h = "sys_uptime" -> Returned(c, SysUptime(elapsed_ticks))
                      [] h = "sys_task_create" /\ a1 = 0 -> Returned(c, Err(Invalid))
                      [] h = "sys_task_wait" /\ a1 = 0 -> Returned(c, Err(Invalid))
                      [] OTHER -> c
           /\ input_buffer' = IF h = "sys_read"
                              THEN SysReadRest(a1, a2, a3, input_buffer)
                              ELSE input_buffer
           /\ pc' = CASE h = "sys_exit" -> "exit_current"
                      [] h = "sys_task_create" /\ a1 # 0 -> "cp_push"
                      [] h = "sys_task_wait" /\ a1 # 0 -> "wait_poll"
                      [] OTHER -> "idle"
           /\ caller' = IF h \in {"sys_task_create", "sys_task_wait"} /\ a1 # 0
                        THEN h ELSE "none"
           /\ arg' = CASE h = "sys_exit" -> AsI64(a1)
                       [] h \in {"sys_task_create", "sys_task_wait"} -> a1
                       [] OTHER -> 0
    /\ createdOnly' = FALSE
    /\ UNCHANGED <<table, next_pid, ready_queue, current_process, time_counter,
                   elapsed_ticks, preemption_enabled, pid, held, irq, ret,
                   schedLog, exitMark, createLog>>
    /\ UNCHANGED rvars
    /\ UNCHANGED lvars
    /\ UNCHANGED xvars

----------------------------------------------------------------------------
(* The timer interrupt.  The handler runs with interrupts masked, so it is *)
(* one step unless it needs a spin lock the interrupted thread holds: then *)
(* it spins for good, since that thread cannot run to release the lock.    *)

\* timer_interrupt_handler: timer_tick(); if the quantum expired,
\* schedule() and context_switch(prev, Some(next))
TimerInterrupt ==
    /\ irq = "none"
    /\ elapsed_ticks < MaxTicks
    /\ elapsed_ticks' = elapsed_ticks + 1
    /\ IF held = "sched"
       THEN \* timer_tick: scheduler.lock() never succeeds
            /\ irq' = "sched"
            /\ UNCHANGED <<table, ready_queue, current_process, time_counter,
                           schedLog, createdOnly>>
       ELSE LET t == Tick(time_counter)
                s == Schedule(ready_queue, current_process, table)
            IN  /\ time_counter' = t.counter
                /\ IF ~t.expired
                   THEN /\ irq' = "none"
                        /\ UNCHANGED <<table, ready_queue, current_process,
                                       schedLog, createdOnly>>
                   ELSE IF current_process # NoPid /\ held = "table"
                   THEN \* schedule: get_process_status spins on table.lock()
                        /\ irq' = "table"
                        /\ UNCHANGED <<table, ready_queue, current_process,
                                       schedLog, createdOnly>>
                   ELSE /\ irq' = "none"
                        /\ ready_queue' = s.queue
                        /\ current_process' = s.next
                        /\ table' = IF s.next # NoPid
                                    THEN ContextSwitch(table, s.prev, s.next)
                                    ELSE table
                        /\ schedLog' = Append(schedLog,
                               [prev |-> s.prev, next |-> s.next,
                                locks |-> ScheduleLocks(current_process)])
                        /\ createdOnly' = (createdOnly /\ pc = "idle")
    /\ UNCHANGED <<next_pid, preemption_enabled, pc, caller, pid, arg, held, ret,
                   exitMark>>
    /\ UNCHANGED rvars
    /\ UNCHANGED createLog
    /\ UNCHANGED svars
    /\ UNCHANGED lvars
    /\ UNCHANGED xvars

----------------------------------------------------------------------------
(* RingBuffer                                                              *)

\* log2 of RING_BUFFER_SIZE (ipc.rs:21 has 256 slots; the model has 2^RingBits).
RingBits == 2

\* Width of the index wrap mask (ipc.rs:158 has 0xFFFFFFFF; the model has IndexBits bits).
IndexBits == 3

\* Messages the producer offers in one run.
MaxMsgs == 10

RING_BUFFER_SIZE == 2 ^ RingBits

\* x & RING_MASK
RingMask(x) == x % RING_BUFFER_SIZE

\* the wrap taken as a modulus by the mask value
IndexMask_Modulo(x) == x % ((2 ^ IndexBits) - 1)

\* x & 0xFFFFFFFF
IndexMask(x) == x % (2 ^ IndexBits)

\* RingMessage::new(0, 0, 0)
EmptyMessage == [sender_task_id |-> 0, msg_id |-> 0, payload |-> 0]

\* the n-th message the producer offers
Message(n) == [sender_task_id |-> 42, msg_id |-> n, payload |-> 100 + n]

\* the full test without the masks
IsFull_Unmasked(w, r) == w + 1 = r

\* enqueue: the buffer-full test
IsFull(w, r) == RingMask(w + 1) = RingMask(r)

\* dequeue: the buffer-empty test
IsEmpty(r, w) == RingMask(r) = RingMask(w)

\* RingBuffer::depth
Depth(w, r) == RingMask(w - r)

\* enqueue is called: write_index.load(Acquire)
EnqLoadWrite ==
    /\ ppc = "idle"
    /\ Len(accepted) < MaxMsgs
    /\ pmsg' = Message(Len(accepted) + 1)
    /\ pwrite' = write_index
    /\ ppc' = "load_read"
    /\ pres' = "none"
    /\ UNCHANGED <<slots, write_index, read_index, pread, cpc, cmsg, cread, cwrite,
                   accepted, returned, cres>>
    /\ UNCHANGED kvars
    /\ UNCHANGED svars
    /\ UNCHANGED lvars
    /\ UNCHANGED xvars

\* enqueue: read_index.load(Acquire), then the full test: Err(()) when full
EnqLoadRead ==
    /\ ppc = "load_read"
    /\ pread' = read_index
    /\ IF IsFull(pwrite, read_index)
       THEN ppc' = "idle" /\ pres' = "Err"
       ELSE ppc' = "copy_header" /\ pres' = pres
    /\ UNCHANGED <<slots, write_index, read_index, pmsg, pwrite, cpc, cmsg, cread,
                   cwrite, accepted, returned, cres>>
    /\ UNCHANGED kvars
    /\ UNCHANGED svars
    /\ UNCHANGED lvars
    /\ UNCHANGED xvars

\* enqueue: copy_nonoverlapping into messages[write & RING_MASK], the header bytes
EnqCopyHeader ==
    /\ ppc = "copy_header"
    /\ slots' = [slots EXCEPT ![RingMask(pwrite)].sender_task_id = pmsg.sender_task_id,
                              ![RingMask(pwrite)].msg_id = pmsg.msg_id]
    /\ ppc' = "copy_payload"
    /\ UNCHANGED <<write_index, read_index, pmsg, pwrite, pread, cpc, cmsg, cread,
                   cwrite, accepted, returned, pres, cres>>
    /\ UNCHANGED kvars
    /\ UNCHANGED svars
    /\ UNCHANGED lvars
    /\ UNCHANGED xvars

\* enqueue: copy_nonoverlapping, the payload bytes
EnqCopyPayload ==
    /\ ppc = "copy_payload"
    /\ slots' = [slots EXCEPT ![RingMask(pwrite)].payload = pmsg.payload]
    /\ ppc' = "store"
    /\ UNCHANGED <<write_index, read_index, pmsg, pwrite, pread, cpc, cmsg, cread,
                   cwrite, accepted, returned, pres, cres>>
    /\ UNCHANGED kvars
    /\ UNCHANGED svars
    /\ UNCHANGED lvars
    /\ UNCHANGED xvars

\* enqueue: write_index.store((write + 1) & 0xFFFFFFFF, Release); Ok(())
EnqStore ==
    /\ ppc = "store"
    /\ write_index' = IndexMask(pwrite + 1)
    /\ accepted' = Append(accepted, pmsg)
    /\ ppc' = "idle"
    /\ pres' = "Ok"
    /\ UNCHANGED <<slots, read_index, pmsg, pwrite, pread, cpc, cmsg, cread, cwrite,
                   returned, cres>>
    /\ UNCHANGED kvars
    /\ UNCHANGED svars
    /\ UNCHANGED lvars
    /\ UNCHANGED xvars

\* enqueue calls started by two producers on one ring are capped here
MaxPair == 3

\* the second caller is not inside enqueue
NoEnqueue == [pc |-> "idle", msg |-> EmptyMessage, write |-> 0, read |-> 0, res |-> "none"]

\* the n-th message the second caller offers
Message2(n) == [sender_task_id |-> 43, msg_id |-> n, payload |-> 200 + n]

\* enqueue is called by the second caller: write_index.load(Acquire)
Enq2LoadWrite ==
    /\ second.pc = "idle"
    /\ Len(accepted) < MaxPair
    /\ second' = [pc |-> "load_read", msg |-> Message2(Len(accepted) + 1),
                  write |-> write_index, read |-> second.read, res |-> "none"]
    /\ UNCHANGED probe
    /\ UNCHANGED rvars
    /\ UNCHANGED kvars
    /\ UNCHANGED svars
    /\ UNCHANGED lvars

\* second caller: read_index.load(Acquire), then the full test
Enq2LoadRead ==
    /\ second.pc = "load_read"
    /\ second' = [second EXCEPT
                     !.read = read_index,
                     !.pc = IF IsFull(second.write, read_index) THEN "idle"
                            ELSE "copy_header",
                     !.res = IF IsFull(second.write, read_index) THEN "Err"
                             ELSE second.res]
    /\ UNCHANGED probe
    /\ UNCHANGED rvars
    /\ UNCHANGED kvars
    /\ UNCHANGED svars
    /\ UNCHANGED lvars

\* second caller: copy_nonoverlapping into messages[write & RING_MASK], the header bytes
Enq2CopyHeader ==
    /\ second.pc = "copy_header"
    /\ slots' = [slots EXCEPT
                    ![RingMask(second.write)].sender_task_id = second.msg.sender_task_id,
                    ![RingMask(second.write)].msg_id = second.msg.msg_id]
    /\ second' = [second EXCEPT !.pc = "copy_payload"]
    /\ UNCHANGED <<write_index, read_index, ppc, pmsg, pwrite, pread, cpc, cmsg,
                   cread, cwrite, accepted, returned, pres, cres>>
    /\ UNCHANGED probe
    /\ UNCHANGED kvars
    /\ UNCHANGED svars
    /\ UNCHANGED lvars

\* second caller: copy_nonoverlapping, the payload bytes
Enq2CopyPayload ==
    /\ second.pc = "copy_payload"
    /\ slots' = [slots EXCEPT ![RingMask(second.write)].payload = second.msg.payload]
    /\ second' = [second EXCEPT !.pc = "store"]
    /\ UNCHANGED <<write_index, read_index, ppc, pmsg, pwrite, pread, cpc, cmsg,
                   cread, cwrite, accepted, returned, pres, cres>>
    /\ UNCHANGED probe
    /\ UNCHANGED kvars
    /\ UNCHANGED svars
    /\ UNCHANGED lvars

\* second caller: write_index.store((write + 1) & 0xFFFFFFFF, Release); Ok(())
Enq2Store ==
    /\ second.pc = "store"
    /\ write_index' = IndexMask(second.write + 1)
    /\ accepted' = Append(accepted, second.msg)
    /\ second' = [second EXCEPT !.pc = "idle", !.res = "Ok"]
    /\ UNCHANGED <<slots, read_index, ppc, pmsg, pwrite, pread, cpc, cmsg, cread,
                   cwrite, returned, pres, cres>>
    /\ UNCHANGED probe
    /\ UNCHANGED kvars
    /\ UNCHANGED svars
    /\ UNCHANGED lvars

\* no depth() or is_empty() call was made
NoProbe == [op |-> "none", result |-> "none", value |-> 0, empty |-> FALSE]

\* depth() in a build with (checked) or without overflow checks:
\* (write - read) & RING_MASK, the subtraction in usize
DepthCall(w, r, checked) ==
    IF checked /\ w < r
    THEN [result |-> "panic", value |-> 0]
    ELSE [result |-> "Ok", value |-> Depth(w, r)]

\* depth() is called
CallDepth(checked) ==
    /\ probe' = [op |-> "depth",
                 result |-> DepthCall(write_index, read_index, checked).result,
                 value |-> DepthCall(write_index, read_index, checked).value,
                 empty |-> FALSE]
    /\ UNCHANGED second
    /\ UNCHANGED rvars
    /\ UNCHANGED kvars
    /\ UNCHANGED svars
    /\ UNCHANGED lvars

\* is_empty() is called
CallIsEmpty ==
    /\ probe' = [op |-> "is_empty", result |-> "Ok", value |-> 0,
                 empty |-> IsEmpty(read_index, write_index)]
    /\ UNCHANGED second
    /\ UNCHANGED rvars
    /\ UNCHANGED kvars
    /\ UNCHANGED svars
    /\ UNCHANGED lvars

\* dequeue is called: read_index.load(Acquire)
DeqLoadRead ==
    /\ cpc = "idle"
    /\ cread' = read_index
    /\ cpc' = "load_write"
    /\ cres' = "none"
    /\ UNCHANGED <<slots, write_index, read_index, ppc, pmsg, pwrite, pread, cmsg,
                   cwrite, accepted, returned, pres>>
    /\ UNCHANGED kvars
    /\ UNCHANGED svars
    /\ UNCHANGED lvars
    /\ UNCHANGED xvars

\* dequeue: write_index.load(Acquire), then the empty test: None when empty
DeqLoadWrite ==
    /\ cpc = "load_write"
    /\ cwrite' = write_index
    /\ IF IsEmpty(cread, write_index)
       THEN cpc' = "idle" /\ cres' = "None"
       ELSE cpc' = "read_header" /\ cres' = cres
    /\ UNCHANGED <<slots, write_index, read_index, ppc, pmsg, pwrite, pread, cmsg,
                   cread, accepted, returned, pres>>
    /\ UNCHANGED kvars
    /\ UNCHANGED svars
    /\ UNCHANGED lvars
    /\ UNCHANGED xvars

\* dequeue: ptr::read(&messages[read & RING_MASK]), the header bytes
DeqReadHeader ==
    /\ cpc = "read_header"
    /\ cmsg' = [cmsg EXCEPT !.sender_task_id = slots[RingMask(cread)].sender_task_id,
                            !.msg_id = slots[RingMask(cread)].msg_id]
    /\ cpc' = "read_payload"
    /\ UNCHANGED <<slots, write_index, read_index, ppc, pmsg, pwrite, pread, cread,
                   cwrite, accepted, returned, pres, cres>>
    /\ UNCHANGED kvars
    /\ UNCHANGED svars
    /\ UNCHANGED lvars
    /\ UNCHANGED xvars

\* dequeue: ptr::read, the payload bytes
DeqReadPayload ==
    /\ cpc = "read_payload"
    /\ cmsg' = [cmsg EXCEPT !.payload = slots[RingMask(cread)].payload]
    /\ cpc' = "store"
    /\ UNCHANGED <<slots, write_index, read_index, ppc, pmsg, pwrite, pread, cread,
                   cwrite, accepted, returned, pres, cres>>
    /\ UNCHANGED kvars
    /\ UNCHANGED svars
    /\ UNCHANGED lvars
    /\ UNCHANGED xvars

\* dequeue: read_index.store((read + 1) & 0xFFFFFFFF, Release); Some(message)
DeqStore ==
    /\ cpc = "store"
    /\ read_index' = IndexMask(cread + 1)
    /\ returned' = Append(returned, cmsg)
    /\ cpc' = "idle"
    /\ cres' = "Some"
    /\ UNCHANGED <<slots, write_index, ppc, pmsg, pwrite, pread, cmsg, cread, cwrite,
                   accepted, pres>>
    /\ UNCHANGED kvars
    /\ UNCHANGED svars
    /\ UNCHANGED lvars
    /\ UNCHANGED xvars

----------------------------------------------------------------------------
(* The ELF loader.  A binary is a sequence of bytes; binary[i] of the      *)
(* source is b[i + 1] here.  TLC integers have 32 bits, so the buffers     *)
(* offered keep the four high bytes of the entry point zero.               *)

\* b"\x7FELF"
ELF_MAGIC == <<127, 69, 76, 70>>

ELF_CLASS_64BIT == 2

ELF_DATA_LSB == 1

ELF_TYPE_EXECUTABLE == 2

ELF_MACHINE_X86_64 == 62

\* size of a process stack in bytes
TASK_STACK_SIZE == 4096

\* u16::from_le_bytes([lo, hi])
U16Le(lo, hi) == lo + 256 * hi

RECURSIVE U64Le(_)
\* u64::from_le_bytes(bytes)
U64Le(bytes) == IF Len(bytes) = 0 THEN 0 ELSE Head(bytes) + 256 * U64Le(Tail(bytes))

\* Ok(ElfInfo { entry_point, size })
ElfOk(entry_point, size) ==
    [ok |-> TRUE, err |-> "none", entry_point |-> entry_point, size |-> size]

\* Err(ElfError::e)
ElfErr(e) == [ok |-> FALSE, err |-> e, entry_point |-> 0, size |-> 0]

\* parse_elf with the encoding check moved before the class check
ParseElf_EncodingFirst(b) ==
    IF Len(b) < 64 THEN ElfErr("TooSmall")
    ELSE IF SubSeq(b, 1, 4) # ELF_MAGIC THEN ElfErr("BadMagic")
    ELSE IF b[6] # ELF_DATA_LSB THEN ElfErr("BadEncoding")
    ELSE IF b[5] # ELF_CLASS_64BIT THEN ElfErr("BadClass")
    ELSE IF b[7] # 1 THEN ElfErr("BadVersion")
    ELSE IF U16Le(b[17], b[18]) # ELF_TYPE_EXECUTABLE THEN ElfErr("BadType")
    ELSE IF U16Le(b[19], b[20]) # ELF_MACHINE_X86_64 THEN ElfErr("BadMachine")
    ELSE ElfOk(U64Le(SubSeq(b, 25, 32)), Len(b))

\* parse_elf
ParseElf(b) ==
    IF Len(b) < 64 THEN ElfErr("TooSmall")
    ELSE IF SubSeq(b, 1, 4) # ELF_MAGIC THEN ElfErr("BadMagic")
    ELSE IF b[5] # ELF_CLASS_64BIT THEN ElfErr("BadClass")
    ELSE IF b[6] # ELF_DATA_LSB THEN ElfErr("BadEncoding")
    ELSE IF b[7] # 1 THEN ElfErr("BadVersion")
    ELSE IF U16Le(b[17], b[18]) # ELF_TYPE_EXECUTABLE THEN ElfErr("BadType")
    ELSE IF U16Le(b[19], b[20]) # ELF_MACHINE_X86_64 THEN ElfErr("BadMachine")
    ELSE ElfOk(U64Le(SubSeq(b, 25, 32)), Len(b))

\* no Process
NoProcess ==
    [status |-> NoStatus, stack |-> <<>>, entry_point |-> 0, rip |-> 0, rsp |-> 0]

\* Process::new_with_name: a Process whose stack is TASK_STACK_SIZE zero bytes
NewWithName ==
    [status |-> Ready, stack |-> [i \in 1..TASK_STACK_SIZE |-> 0],
     entry_point |-> 0, rip |-> 0, rsp |-> 0]

\* load_binary that takes the ELF entry value as the entry point
LoadedProcess_EntryUnrelocated(process, b, elf, stack_base) ==
    [status |-> Ready,
     stack |-> [i \in 1..TASK_STACK_SIZE |-> IF i <= Len(b) THEN b[i] ELSE process.stack[i]],
     entry_point |-> AsUsize(elf.entry_point),
     rip |-> stack_base,
     rsp |-> stack_base + TASK_STACK_SIZE - 8]

\* load_binary, after its checks: the binary copied to the start of the
\* stack at address stack_base, the entry point, saved_context and status
LoadedProcess(process, b, elf, stack_base) ==
    [status |-> Ready,
     stack |-> [i \in 1..TASK_STACK_SIZE |-> IF i <= Len(b) THEN b[i] ELSE process.stack[i]],
     entry_point |-> AsUsize(stack_base + AsUsize(elf.entry_point)),
     rip |-> stack_base,
     rsp |-> stack_base + TASK_STACK_SIZE - 8]

\* load_binary: stack_base + entry_point does not fit a usize (a panic in a
\* build with overflow checks, a wrapped sum in one without)
EntryOverflows(elf, stack_base) ==
    stack_base + AsUsize(elf.entry_point) >= 2 ^ WordBits

\* load_binary(b, _), the stack of the new Process being at stack_base,
\* in a build with (checked) or without overflow checks
LoadBinary(b, stack_base, checked) ==
    IF Len(b) = 0
    THEN [result |-> "Err", err |-> "Binary is empty", process |-> NoProcess]
    ELSE IF ~ParseElf(b).ok
    THEN [result |-> "Err", err |-> "Invalid ELF binary format", process |-> NoProcess]
    ELSE IF Len(b) > TASK_STACK_SIZE
    THEN [result |-> "Err", err |-> "Binary too large for process stack",
          process |-> NoProcess]
    ELSE IF checked /\ EntryOverflows(ParseElf(b), stack_base)
    THEN [result |-> "panic", err |-> "attempt to add with overflow",
          process |-> NoProcess]
    ELSE [result |-> "Ok", err |-> "none",
          process |-> LoadedProcess(NewWithName, b, ParseElf(b), stack_base)]

\* no parse_elf or load_binary call was made
NoLoad ==
    [op |-> "none", binary |-> <<>>, stack_base |-> 0, parsed |-> ElfErr("none"),
     result |-> "none", err |-> "none", process |-> NoProcess]

\* parse_elf(b) is called
CallParseElf(b) ==
    /\ loader.op = "none"
    /\ loader' = [NoLoad EXCEPT !.op = "parse_elf", !.binary = b,
                                !.parsed = ParseElf(b)]
    /\ UNCHANGED <<task_context, cpu>>
    /\ UNCHANGED xvars
    /\ UNCHANGED kvars
    /\ UNCHANGED rvars
    /\ UNCHANGED svars

\* load_binary(b, name) is called
CallLoadBinary(b, stack_base, checked) ==
    /\ loader.op = "none"
    /\ LET r == LoadBinary(b, stack_base, checked)
       IN  loader' = [op |-> "load_binary", binary |-> b, stack_base |-> stack_base,
                      parsed |-> ParseElf(b), result |-> r.result, err |-> r.err,
                      process |-> r.process]
    /\ UNCHANGED <<task_context, cpu>>
    /\ UNCHANGED xvars
    /\ UNCHANGED kvars
    /\ UNCHANGED rvars
    /\ UNCHANGED svars

----------------------------------------------------------------------------
(* The task context.  A TaskContext is a function from the names of its    *)
(* fields to their values; in memory it is 18 quadwords in field order.    *)

\* #[repr(C)] struct TaskContext: the fields in declaration order
TaskContextLayout ==
    <<"rax", "rbx", "rcx", "rdx", "rsi", "rdi", "rbp", "rsp", "r8", "r9", "r10",
      "r11", "r12", "r13", "r14", "r15", "rip", "rflags">>

\* the fields of a TaskContext
TaskContextFields == {TaskContextLayout[k] : k \in 1..Len(TaskContextLayout)}

\* the byte offset of field f in a TaskContext
OffsetOf(f) == 8 * ((CHOOSE k \in 1..Len(TaskContextLayout) : TaskContextLayout[k] = f) - 1)

\* TaskContext::new(entry_point, _stack_top)
TaskContextNew(entry_point, stack_top) ==
    [f \in TaskContextFields |-> IF f = "rdi" THEN entry_point ELSE 0]

\* TaskContext::new(entry_point, stack_top) is called
NewTaskContext(entry_point, stack_top) ==
    /\ task_context' = [op |-> "new", entry_point |-> entry_point,
                        stack_top |-> stack_top,
                        ctx |-> TaskContextNew(entry_point, stack_top)]
    /\ UNCHANGED <<loader, cpu>>
    /\ UNCHANGED xvars
    /\ UNCHANGED kvars
    /\ UNCHANGED rvars
    /\ UNCHANGED svars

\* the registers restore_context loads, rflags and rip apart
Registers == TaskContextFields \ {"rip", "rflags"}

\* the instructions of restore_context: mov reg, [ctx_ptr + off]; push reg;
\* popfq; jmp reg
Mov(reg, off) == [op |-> "mov", reg |-> reg, off |-> off]

RestoreProgram ==
    <<Mov("rsp", 56),
      Mov("rax", 0), Mov("rbx", 8), Mov("rcx", 16), Mov("rdx", 24),
      Mov("rsi", 32), Mov("rdi", 40), Mov("rbp", 48),
      Mov("r8", 64), Mov("r9", 72), Mov("r10", 80), Mov("r11", 88),
      Mov("r12", 96), Mov("r13", 104), Mov("r14", 112), Mov("r15", 120),
      Mov("r10", 136),
      [op |-> "push", reg |-> "r10", off |-> 0],
      [op |-> "popfq", reg |-> "none", off |-> 0],
      Mov("r10", 128),
      [op |-> "jmp", reg |-> "r10", off |-> 0]>>

\* the quadword at address a: a field of the context at env.ctx_addr, the
\* quadword the push stored, or whatever else memory holds there
MemRead(c, a, env) ==
    IF \E f \in TaskContextFields : env.ctx_addr + OffsetOf(f) = a
    THEN env.ctx[CHOOSE f \in TaskContextFields : env.ctx_addr + OffsetOf(f) = a]
    ELSE IF c.pushed /\ c.push_addr = a THEN c.push_val
    ELSE env.junk

\* one instruction; env.ptr is the register the compiler gave ctx_ptr
Exec(c, ins, env) ==
    CASE ins.op = "mov" ->
            [c EXCEPT !.regs[ins.reg] = MemRead(c, c.regs[env.ptr] + ins.off, env)]
      [] ins.op = "push" ->
            [c EXCEPT !.regs["rsp"] = c.regs["rsp"] - 8,
                      !.pushed = TRUE,
                      !.push_addr = c.regs["rsp"] - 8,
                      !.push_val = c.regs[ins.reg]]
      [] ins.op = "popfq" ->
            [c EXCEPT !.rflags = MemRead(c, c.regs["rsp"], env),
                      !.regs["rsp"] = c.regs["rsp"] + 8]
      [] OTHER ->
            [c EXCEPT !.rip = c.regs[ins.reg], !.jumped = TRUE]

RECURSIVE Run(_, _, _)
\* the instructions from the k-th on
Run(c, k, env) ==
    IF k > Len(RestoreProgram) THEN c
    ELSE Run(Exec(c, RestoreProgram[k], env), k + 1, env)

\* the processor when the asm! block is entered: ctx_ptr in its register
EnterRestore(env) ==
    [regs |-> [r \in Registers |-> IF r = env.ptr THEN env.ctx_addr ELSE env.junk],
     rflags |-> 2, rip |-> 0, jumped |-> FALSE,
     pushed |-> FALSE, push_addr |-> 0, push_val |-> 0]

\* restore_context(ctx), with ctx at ctx_addr and ctx_ptr in register ptr
RestoreContext(ctx, ctx_addr, ptr, junk) ==
    /\ LET env == [ctx |-> ctx, ctx_addr |-> ctx_addr, ptr |-> ptr, junk |-> junk]
           c == Run(EnterRestore(env), 1, env)
       IN  cpu' = [op |-> "restore_context", ctx |-> ctx, ptr |-> ptr,
                   regs |-> c.regs, rflags |-> c.rflags, rip |-> c.rip,
                   jumped |-> c.jumped]
    /\ UNCHANGED <<loader, task_context>>
    /\ UNCHANGED xvars
    /\ UNCHANGED kvars
    /\ UNCHANGED rvars
    /\ UNCHANGED svars

----------------------------------------------------------------------------
(* Specifications                                                          *)

\* the statics as the kernel image holds them; RingBuffer::new() then init()
Init ==
    /\ table = <<>>
    /\ next_pid = 1
    /\ ready_queue = <<>>
    /\ current_process = NoPid
    /\ time_counter = 0
    /\ elapsed_ticks = 0
    /\ preemption_enabled = TRUE
    /\ pc = "idle"
    /\ caller = "none"
    /\ pid = NoPid
    /\ arg = 0
    /\ held = "none"
    /\ irq = "none"
    /\ ret = ResultNone("none")
    /\ schedLog = <<>>
    /\ createdOnly = TRUE
    /\ exitMark = [pid |-> NoPid, code |-> 0, at |-> 0, current |-> NoPid]
    /\ slots = [i \in 0..(RING_BUFFER_SIZE - 1) |-> EmptyMessage]
    /\ write_index = 0
    /\ read_index = 0
    /\ ppc = "idle"
    /\ pmsg = EmptyMessage
    /\ pwrite = 0
    /\ pread = 0
    /\ cpc = "idle"
    /\ cmsg = EmptyMessage
    /\ cread = 0
    /\ cwrite = 0
    /\ accepted = <<>>
    /\ returned = <<>>
    /\ pres = "none"
    /\ cres = "none"
    /\ createLog = <<>>
    /\ input_buffer = <<>>
    /\ sc = NoCall
    /\ loader = NoLoad
    /\ task_context = [op |-> "none"]
    /\ cpu = [op |-> "none"]
    /\ second = NoEnqueue
    /\ probe = NoProbe

Next ==
    \/ \E e \in 0..MaxTask : CallCreateProcess(e)
    \/ \E e \in 1..MaxTask : CmdSpawn(e)
    \/ \E e \in 0..MaxTask : SysTaskCreate(e)
    \/ Lock
    \/ CreateProcessPush
    \/ CreateProcessEnqueue
    \/ SpawnEnqueue
    \/ TaskCreateEnqueue
    \/ TaskCreateSetReady
    \/ ExecuteAllReady
    \/ FindReady
    \/ SetRunning
    \/ RunTask
    \/ SetExited
    \/ \E c \in ExitCodes : SysExit(c)
    \/ ExitCurrent
    \/ ExitSet
    \/ DisablePreemption
    \/ EnablePreemption
    \/ TimerInterrupt

Spec == Init /\ [][Next]_vars

RingNext ==
    \/ EnqLoadWrite
    \/ EnqLoadRead
    \/ EnqCopyHeader
    \/ EnqCopyPayload
    \/ EnqStore
    \/ DeqLoadRead
    \/ DeqLoadWrite
    \/ DeqReadHeader
    \/ DeqReadPayload
    \/ DeqStore

SpecRing == Init /\ [][RingNext]_vars

\* two callers of enqueue and one of dequeue on one RingBuffer
Ring2Next ==
    \/ (EnqLoadWrite /\ Len(accepted) < MaxPair)
    \/ EnqLoadRead
    \/ EnqCopyHeader
    \/ EnqCopyPayload
    \/ EnqStore
    \/ DeqLoadRead
    \/ DeqLoadWrite
    \/ DeqReadHeader
    \/ DeqReadPayload
    \/ DeqStore
    \/ Enq2LoadWrite
    \/ Enq2LoadRead
    \/ Enq2CopyHeader
    \/ Enq2CopyPayload
    \/ Enq2Store

SpecRing2 == Init /\ [][Ring2Next]_vars

\* the producer and the consumer, with depth() and is_empty() called at will
RingProbeNext ==
    \/ RingNext
    \/ \E checked \in BOOLEAN : CallDepth(checked)
    \/ CallIsEmpty

SpecRingProbe == Init /\ [][RingProbeNext]_vars

\* lengths offered to sys_log, sys_write and sys_read
Lens == {0, 1, 10, 1024, 1025, 2000, 4096, 4097, 5000}

\* calls offered to dispatch_syscall, <<nr, a1, a2, a3>>: the handlers that
\* work on their arguments alone, sys_exit, and numbers outside the table
AbiInputs ==
    ({0} \X {0, HelloMagic} \X {0} \X {0})
    \cup ({1} \X {0, UserBuf} \X Lens \X {0})
    \cup ({2} \X (0..3) \X {0, UserBuf} \X Lens)
    \cup ({3} \X {0, 1} \X {0} \X {0})
    \cup ({4} \X {0, 1} \X {0, UserBuf} \X {0, 1, 4096, 4097})
    \cup ({5, 6} \X {0} \X {0} \X {0})
    \cup ({7, 9} \X {0} \X {0} \X {0})
    \cup ({8} \X {0, UserBuf} \X {0, 11, 4096} \X {0})
    \cup ({10, 11, 999} \X {0, 1} \X {0, UserBuf} \X {0, 4096})

\* calls offered to dispatch_syscall, <<nr, a1, a2, a3>>: the process syscalls
TaskInputs ==
    ({0} \X {0, HelloMagic} \X {0} \X {0})
    \cup ({1} \X {0, UserBuf} \X {0, 10} \X {0})
    \cup ({2} \X {0, 1} \X {0, UserBuf} \X {10})
    \cup ({3} \X {1} \X {0} \X {0})
    \cup ({4} \X {0, 1} \X {0, UserBuf} \X {1, 4097})
    \cup ({5} \X {0, 1, 5} \X {0} \X {0})
    \cup ({6} \X (0..(TableCap + 1)) \X {0} \X {0})
    \cup ({7} \X {0} \X {0} \X {0})
    \cup ({8} \X {0, UserBuf} \X {0, 11, 21, 32, 4096} \X {0})
    \cup ({10} \X {1} \X {UserBuf} \X {4096})

AbiNext ==
    \/ \E i \in AbiInputs : DispatchSyscall(i[1], i[2], i[3], i[4])
    \/ \E ch \in {65, 66} : AddInputChar(ch)
    \/ Lock
    \/ ExitCurrent

\* dispatch_syscall over the argument space of the handlers that keep no
\* process state, one call at a time, with no timer interrupt
SpecAbi == Init /\ [][AbiNext]_vars

SyscallNext ==
    \/ \E i \in TaskInputs : DispatchSyscall(i[1], i[2], i[3], i[4])
    \/ \E ch \in {65} : AddInputChar(ch)
    \/ Lock
    \/ CreateProcessPush
    \/ CreateProcessEnqueue
    \/ TaskCreateEnqueue
    \/ TaskCreateSetReady
    \/ ExecuteAllReady
    \/ FindReady
    \/ SetRunning
    \/ RunTask
    \/ SetExited
    \/ ExitCurrent
    \/ WaitPoll
    \/ WaitSpin

\* the process syscalls, sys_read, sys_ps and execute_all_ready, one call at
\* a time, with key presses and no timer interrupt
SpecSyscall == Init /\ [][SyscallNext]_vars

WaitNext ==
    \/ \E e \in 0..MaxTask : CallCreateProcess(e)
    \/ Lock
    \/ CreateProcessPush
    \/ CreateProcessEnqueue
    \/ ExecuteAllReady
    \/ FindReady
    \/ SetRunning
    \/ RunTask
    \/ SetExited
    \/ \E p \in 0..(TableCap + 1) : SysTaskWait(p)
    \/ WaitPoll
    \/ WaitSpin
    \/ TimerInterrupt

\* a step of the thread inside wait_process
WaitStep == (Lock /\ pc = "wait_poll") \/ WaitPoll \/ WaitSpin

\* creating, running and waiting for processes under the timer; the waiter
\* is the code the CPU runs, so it goes on whenever it can
SpecWait == Init /\ [][WaitNext]_vars /\ WF_vars(WaitStep)

\* a step of the thread inside execute_all_ready
RunStep ==
    \/ (Lock /\ pc \in {"ear_find", "ep_set_running", "ep_set_exited"})
    \/ FindReady
    \/ SetRunning
    \/ RunTask
    \/ SetExited

\* the same operations with cmd_run's loop as the code the CPU runs: it
\* goes on whenever it can
SpecRun == Init /\ [][WaitNext]_vars /\ WF_vars(RunStep)

\* the buffer of tests::test_too_small, b"ELF"
TestTooSmall == <<69, 76, 70>>

\* the buffer of tests::test_invalid_magic, b"NotELF\x00\x00"
TestInvalidMagic == <<78, 111, 116, 69, 76, 70, 0, 0>>

\* entry points as the eight bytes at 0x18: 0x1000, 0 and 0x01022003
EntryBytes ==
    {<<0, 16, 0, 0, 0, 0, 0, 0>>, <<0, 0, 0, 0, 0, 0, 0, 0>>, <<3, 32, 2, 1, 0, 0, 0, 0>>}

\* header fields offered: right and wrong magic, class, encoding, version,
\* type and machine (258 and 318 are wrong in the high byte only)
ElfHeaders ==
    [magic : {ELF_MAGIC, <<78, 111, 116, 69>>, <<127, 69, 76, 71>>},
     class : {1, 2}, data : {1, 2}, version : {0, 1},
     type : {2, 3, 258}, machine : {62, 3, 318}, entry : EntryBytes]

\* the first n bytes of a file with header h, as tests::test_valid_minimal_elf
\* lays the header out
ElfImage(h, n) ==
    [i \in 1..n |->
        CASE i \in 1..4 -> h.magic[i]
          [] i = 5 -> h.class
          [] i = 6 -> h.data
          [] i = 7 -> h.version
          [] i = 17 -> h.type % 256
          [] i = 18 -> h.type \div 256
          [] i = 19 -> h.machine % 256
          [] i = 20 -> h.machine \div 256
          [] i \in 25..32 -> h.entry[i - 24]
          [] i > 64 -> i % 251
          [] OTHER -> 0]

\* buffers offered to parse_elf
ParseInputs ==
    {ElfImage(h, n) : h \in ElfHeaders, n \in {63, 64, 65}}
    \cup {<<>>, TestTooSmall, TestInvalidMagic}

\* buffers offered to load_binary: headers right but for the magic or the
\* machine, of 63 bytes up to one byte more than the stack holds
LoadInputs ==
    {ElfImage(h, n) :
        h \in {g \in ElfHeaders : /\ g.magic \in {ELF_MAGIC, <<78, 111, 116, 69>>}
                                  /\ g.class = 2 /\ g.data = 1 /\ g.version = 1
                                  /\ g.type = 2 /\ g.machine \in {62, 3}},
        n \in {63, 64, 100, TASK_STACK_SIZE, TASK_STACK_SIZE + 1}}
    \cup {<<>>, TestInvalidMagic}

\* addresses of the stack buffer of the new Process
StackBases == {16384, 57344}

ElfNext ==
    \/ \E b \in ParseInputs : CallParseElf(b)
    \/ \E b \in LoadInputs : \E base \in StackBases : \E checked \in BOOLEAN :
            CallLoadBinary(b, base, checked)

\* parse_elf and load_binary, each applied to one buffer
SpecElf == Init /\ [][ElfNext]_vars

\* a context as save_context leaves one: every field its own value
SavedContext(n) ==
    [f \in TaskContextFields |->
        CASE f = "rflags" -> 514 + 64 * n
          [] f = "rip" -> 4096 * n
          [] f = "rsp" -> 32768 + 512 * n
          [] OTHER -> 100 * n + OffsetOf(f) \div 8]

\* contexts offered to restore_context
Contexts ==
    {SavedContext(n) : n \in 1..3} \cup {TaskContextNew(4096, 32768)}

\* the registers an `in(reg)` operand can be given
PtrRegisters ==
    {"rax", "rcx", "rdx", "rsi", "rdi", "r8", "r9", "r10", "r11", "r12", "r13",
     "r14", "r15"}

ContextNext ==
    \/ \E e \in {4096, 8192} : \E st \in {16384, 32768} : NewTaskContext(e, st)
    \/ \E c \in Contexts : \E ptr \in PtrRegisters : \E junk \in {0, 7} :
            RestoreContext(c, 20480, ptr, junk)

\* TaskContext::new and restore_context, applied to contexts
SpecContext == Init /\ [][ContextNext]_vars

----------------------------------------------------------------------------
(* Properties                                                              *)

StatusTag(p) == GetProcessStatus(table, p).tag

\* the step is a timer interrupt
IsTimerStep == elapsed_ticks' # elapsed_ticks

\* the step is a timer interrupt in which schedule() ran
IsResched == Len(schedLog') > Len(schedLog)

\* messages resident in the ring buffer
Resident == Len(accepted) - Len(returned)

\* C1: with N processes created by create_process and nothing else done,
\* the k-th schedule() call (k <= N + 1) returns as 'next' the process
\* created ((k - 1) mod N) + 1-th: each id once in creation order, and the
\* (N+1)-th call returns the first id again.
C1_RoundRobinCycle ==
    (createdOnly /\ Len(table) > 0) =>
        \A k \in 1..Len(schedLog) :
            k <= Len(table) + 1 =>
                schedLog[k].next = table[((k - 1) % Len(table)) + 1].id

\* C2: the messages returned by successful dequeue calls are, field for
\* field, a prefix of the messages accepted by successful enqueue calls.
C2_SpscFifo ==
    /\ Len(returned) <= Len(accepted)
    /\ \A i \in 1..Len(returned) : returned[i] = accepted[i]

\* C2 witness: the producer and the consumer are both inside a slot copy
\* after more messages went through than the buffer has slots.
C2_Witness ==
    /\ Len(returned) > RING_BUFFER_SIZE
    /\ ppc = "copy_payload"
    /\ cpc = "read_payload"

\* C3: the timer interrupt handler never spins on a lock held by the code
\* it interrupted: it never arrives while that code holds the process
\* table lock or the scheduler lock.
C3_HandlerNeverSpins ==
    /\ [](irq = "none")
    /\ [][IsTimerStep => held = "none"]_vars

\* C4: while preemption is disabled a timer interrupt does not call
\* schedule() and leaves ready_queue and current_process unchanged.
C4_NoReschedWhileDisabled ==
    [][(IsTimerStep /\ ~preemption_enabled) =>
        (~IsResched /\ UNCHANGED <<ready_queue, current_process>>)]_vars

\* C5: a process id occurs at most once in ready_queue and is never both
\* in ready_queue and the current process.
C5_SchedulerMembership ==
    /\ \A i, j \in 1..Len(ready_queue) :
            ready_queue[i] = ready_queue[j] => i = j
    /\ ~Contains(ready_queue, current_process)

\* C6: no process whose table status is Blocked or Exited is in
\* ready_queue, and schedule() never returns such a process as 'next'.
C6_NoExitedInQueue ==
    /\ [](\A i \in 1..Len(ready_queue) :
            StatusTag(ready_queue[i]) \notin {"Blocked", "Exited"})
    /\ [][IsResched =>
            StatusTag(current_process') \notin {"Blocked", "Exited"}]_vars

\* C7: at most one process in the process table has status Running.
C7_AtMostOneRunning ==
    Cardinality({i \in 1..Len(table) : table[i].status = Running}) <= 1

\* C7 witness: a process is Running (inside execute_process) while another
\* process is in the table and the timer has already driven a resched.
C7_Witness ==
    /\ \E i \in 1..Len(table) : table[i].status = Running
    /\ Len(table) >= 2
    /\ Len(schedLog) > 0
    /\ pc = "ep_run"

\* C8: a timer-driven resched leaves 'prev' Ready (unless the table had it
\* Blocked or Exited, then unchanged) and 'next' Running, so the current
\* process, when present, has table status Running after every resched.
C8_SwitchStampsStatus ==
    [][(IsResched /\ current_process' # NoPid) =>
        /\ GetProcessStatus(table', current_process') = Running
        /\ (current_process # NoPid /\ current_process # current_process') =>
              GetProcessStatus(table', current_process) =
                  IF StatusTag(current_process) \in {"Blocked", "Exited"}
                  THEN GetProcessStatus(table, current_process)
                  ELSE Ready]_vars

\* C9: sys_exit(code) with current process p marks p Exited(code) and never
\* returns; the next schedule() returns p as 'prev', and p is never 'next'
\* afterwards.  With no current process sys_exit returns NotFound (-5).
C9_ExitRetiresProcess ==
    /\ ret.op = "sys_exit" => ret.val = -5
    /\ exitMark.pid # NoPid =>
        /\ GetProcessStatus(table, exitMark.pid) = Exited(exitMark.code)
        /\ pc = "halted"
        /\ (exitMark.current = exitMark.pid /\ Len(schedLog) > exitMark.at) =>
              schedLog[exitMark.at + 1].prev = exitMark.pid
        /\ \A k \in (exitMark.at + 1)..Len(schedLog) :
              schedLog[k].next # exitMark.pid

\* C10: the buffer never holds more than C-1 messages and the number held
\* is (write_index - read_index) mod C; an enqueue that finds C-1 messages
\* resident returns Err and a dequeue that finds none returns None, both
\* leaving the indices and the slots as they were.
C10_Capacity ==
    /\ [](/\ Resident >= 0
          /\ Resident <= RING_BUFFER_SIZE - 1
          /\ Resident = RingMask(write_index - read_index))
    /\ [][(ppc = "load_read" /\ ppc' # ppc /\ Resident = RING_BUFFER_SIZE - 1) =>
            (pres' = "Err" /\ UNCHANGED <<write_index, read_index, slots>>)]_vars
    /\ [][(cpc = "load_write" /\ cpc' # cpc /\ Resident = 0) =>
            (cres' = "None" /\ UNCHANGED <<write_index, read_index, slots>>)]_vars

\* C10 witness: an enqueue has failed on the full buffer and, the buffer
\* drained, a dequeue has returned None, after write_index wrapped.
C10_Witness ==
    /\ pres = "Err"
    /\ cres = "None"
    /\ ppc = "idle"
    /\ cpc = "idle"
    /\ Len(accepted) > 2 ^ IndexBits

\* C11: the ids returned by successful create_process calls are >= 1 and
\* strictly increasing (so never repeated), whatever failed creates, exits
\* and execute_all_ready runs lie between them, and the process table
\* lists its entries in strictly increasing id order.
C11_PidsIncrease ==
    /\ \A i \in 1..Len(createLog) : createLog[i] >= 1
    /\ \A i, j \in 1..Len(createLog) : i < j => createLog[i] < createLog[j]
    /\ \A i, j \in 1..Len(table) : i < j => table[i].id < table[j].id

\* C11 witness: a second process was created after execute_all_ready ran
\* the first one to its exit.
C11_Witness ==
    /\ Len(createLog) >= 2
    /\ Len(table) >= 2
    /\ table[1].status.tag = "Exited"
    /\ table[2].status = Ready
    /\ pc = "idle"

\* C12: create_process(0) returns -1 and create_process on a full table
\* returns -2, and no step of such a call changes the process table, the
\* PID counter or ready_queue.
C12_FailedCreate ==
    /\ [][CallCreateProcess(0) =>
            (/\ ret' = Result("create_process", -1)
             /\ pc' = "idle"
             /\ UNCHANGED <<table, next_pid, ready_queue>>)]_vars
    /\ [][(CreateProcessPush /\ Len(table) >= TableCap) =>
            (/\ caller = "shell" => ret' = Result("create_process", -2)
             /\ pc' = "idle"
             /\ UNCHANGED <<table, next_pid, ready_queue>>)]_vars
    /\ [][((\E e \in 1..MaxTask : CallCreateProcess(e)) \/ (Lock /\ pc = "cp_push")) =>
            UNCHANGED <<table, next_pid, ready_queue>>]_vars

\* C12 witness: create_process has just failed on a full table while a
\* process was waiting in ready_queue.
C12_Witness ==
    /\ ret = Result("create_process", -2)
    /\ Len(table) = TableCap
    /\ Len(ready_queue) > 0

\* C13: wait_process(pid) returns None at its first poll when pid is not in
\* the process table; for a pid in the table it returns only at a poll that
\* finds the status Exited(c), and returns Some(c); sys_task_wait(0)
\* returns Invalid without taking the table lock.
C13_WaitReturnsExitCode ==
    /\ [][(pc = "wait_poll" /\ pc' = "idle") =>
            IF Find(table, arg) = 0
            THEN ret' = ResultNone("wait_process")
            ELSE /\ GetProcessStatus(table, arg).tag = "Exited"
                 /\ ret' = Result("wait_process",
                                  GetProcessStatus(table, arg).code)]_vars
    /\ [][(pc = "wait_poll" /\ held = "table" /\ Find(table, arg) = 0) =>
            pc' = "idle"]_vars
    /\ [](pc = "wait_spin" =>
            (Find(table, arg) # 0 /\ GetProcessStatus(table, arg).tag # "Exited"))
    /\ [][DispatchSyscall(6, 0, 0, 0) =>
            (sc'.result = Err(Invalid) /\ ~sc'.pending /\ pc' = "idle" /\ held' = "none")]_vars

\* C13 witness: sys_task_wait has returned for a process that exited with
\* code -1.
C13_Witness ==
    /\ ret = Result("wait_process", -1)
    /\ sc.handler = "sys_task_wait"
    /\ ~sc.pending
    /\ pc = "idle"

\* C14: a wait_process(p) that is pending while p is Exited eventually
\* returns p's exit code, and the waiter does not hold the process-table
\* lock while it spins between two polls.
C14_WaitLiveness ==
    /\ [](pc = "wait_spin" => held = "none")
    /\ \A p \in 1..TableCap :
          (pc \in {"wait_poll", "wait_spin"} /\ arg = p /\ StatusTag(p) = "Exited")
              ~> (pc = "idle" /\ ret = Result("wait_process",
                                               GetProcessStatus(table, p).code))

\* tick() calls so far: every timer interrupt calls it, unless the handler
\* is stuck on the scheduler lock
TickCalls == IF irq = "sched" THEN elapsed_ticks - 1 ELSE elapsed_ticks

\* C15: tick() returns true on exactly the calls numbered Q, 2Q, 3Q, ...,
\* time_counter is the number of calls modulo Q (0 after a true return), and
\* a tick that does not expire the quantum leaves ready_queue,
\* current_process and the process table as they were.
C15_TickQuantum ==
    /\ [](time_counter = TickCalls % TimeQuantum)
    /\ [][(IsTimerStep /\ irq' # "sched") =>
            /\ (IsResched \/ irq' = "table") <=> (elapsed_ticks' % TimeQuantum = 0)
            /\ (elapsed_ticks' % TimeQuantum # 0) =>
                  UNCHANGED <<ready_queue, current_process, table>>]_vars

\* C15 witness: the quantum has expired twice, the second time just now.
C15_Witness ==
    /\ elapsed_ticks = 2 * TimeQuantum
    /\ Len(schedLog) = 2
    /\ time_counter = 0
    /\ irq = "none"

\* C16: the scheduler lock and the process-table lock are never held at
\* the same time: not by schedule(), and not by the task-context thread.
C16_OneLockAtATime ==
    /\ \A k \in 1..Len(schedLog) : Cardinality(schedLog[k].locks) <= 1
    /\ held \in {"none", "table", "sched"}

\* C17: dispatch_syscall returns a negative value exactly when the handler
\* returned an error, the value then being one of the error codes, and a
\* non-negative value for every Ok result.
C17_NegativeIffError ==
    (~sc.pending /\ sc.handler # "none") =>
        /\ (sc.retval < 0) <=> ~sc.result.ok
        /\ ~sc.result.ok => sc.retval \in {-1, -2, -3, -4, -5, -6, -9}
        /\ sc.result.ok => sc.retval >= 0

\* the handler the ABI table of the specification lists for syscall id n
AbiHandler(n) ==
    CASE n = 0 -> "sys_hello"
      [] n = 1 -> "sys_log"
      [] n = 2 -> "sys_write"
      [] n = 3 -> "sys_exit"
      [] n = 4 -> "sys_read"
      [] n = 5 -> "sys_task_create"
      [] n = 6 -> "sys_task_wait"
      [] n = 7 -> "sys_get_pid"
      [] n = 8 -> "sys_ps"
      [] n = 9 -> "sys_uptime"
      [] OTHER -> "none"

C20_LogLengthLimit ==
    (sc.handler = "sys_log" /\ ~sc.pending /\ sc.args[1] # 0 /\ sc.args[2] > 1024) =>
        sc.result = Err(-1)

C22_TaskCreateContract ==
    [][/\ SysTaskCreate(0) => (ret'.val = -1 /\ UNCHANGED <<table, ready_queue>>)
       /\ (CreateProcessPush /\ caller = "sys_task_create" /\ Len(table) >= TableCap) =>
              (ret'.val = -6 /\ UNCHANGED <<table, ready_queue>>)
       /\ TaskCreateSetReady =>
              /\ ret'.val = pid
              /\ \E k \in 1..Len(table') :
                    table'[k].id = pid /\ table'[k].status = Ready
              /\ Contains(ready_queue', pid) \/ current_process' = pid]_vars

\* the return values that report a bad argument or a failed lookup
ArgErrors == {-1, -9, -3, -5, -2}

\* C23: a syscall invocation that returns Invalid, BadFd, Fault, NotFound
\* or NotImplemented leaves the process table, the scheduler state
\* (ready_queue, current_process, time_counter), the PID counter and the
\* input queue as they were when it was called.
C23_ValidateThenAct ==
    [][/\ \A i \in TaskInputs :
            (/\ ~sc'.pending /\ sc'.retval \in ArgErrors
             /\ sc'.nr = i[1] /\ sc'.args = <<i[2], i[3], i[4]>>
             /\ DispatchSyscall(i[1], i[2], i[3], i[4])) =>
                Frame' = Frame
       /\ (sc.pending /\ ~sc'.pending /\ sc'.retval \in ArgErrors) =>
                Frame' = sc.entry]_vars

\* C23 witness: sys_read on descriptor 1 returned BadFd while a key press
\* was queued and a process was in the table and in ready_queue.
C23_Witness ==
    /\ sc.handler = "sys_read"
    /\ sc.retval = -9
    /\ Len(input_buffer) > 0
    /\ Len(table) > 0
    /\ Len(ready_queue) > 0

\* the line sys_ps is to print for table entry p
ListingLine(p) ==
    (IF p.id < 10 THEN "  " ELSE IF p.id < 100 THEN " " ELSE "") \o ToString(p.id)
    \o " " \o (IF p.status.tag = "Exited" THEN "Exited" ELSE p.status.tag) \o "\n"

\* the header line and the lines of the first n entries of the table
RECURSIVE Listing(_)
Listing(n) == IF n = 0 THEN "PID Status\n" ELSE Listing(n - 1) \o ListingLine(table[n])

FirstFailure(b) ==
    IF Len(b) < 64 THEN "TooSmall"
    ELSE IF <<b[1], b[2], b[3], b[4]>> # <<127, 69, 76, 70>> THEN "BadMagic"
    ELSE IF b[5] # 2 THEN "BadClass"
    ELSE IF b[6] # 1 THEN "BadEncoding"
    ELSE IF b[7] # 1 THEN "BadVersion"
    ELSE IF b[17] # 2 \/ b[18] # 0 THEN "BadType"
    ELSE IF b[19] # 62 \/ b[20] # 0 THEN "BadMachine"
    ELSE "none"

C26_WrongMagic ==
    (/\ loader.op = "parse_elf"
     /\ Len(loader.binary) >= 4
     /\ SubSeq(loader.binary, 1, 4) # <<127, 69, 76, 70>>) =>
        loader.parsed = ElfErr("BadMagic")

C28_RestoreRoundTrip ==
    /\ \A k \in 1..Len(RestoreProgram) :
          (RestoreProgram[k].op = "mov" /\ k <= 16) =>
              RestoreProgram[k].off = OffsetOf(RestoreProgram[k].reg)
    /\ (cpu.op = "restore_context" /\ cpu.jumped) =>
          /\ \A r \in Registers : cpu.regs[r] = cpu.ctx[r]
          /\ cpu.rflags = cpu.ctx["rflags"]
          /\ cpu.rip = cpu.ctx["rip"]

\* C29: TaskContext::new(entry_point, stack_top) returns a context with
\* rdi = entry_point, rbp = stack_top, rsp below stack_top, rip not 0 and
\* rflags = 0x200, as test_task_context_initialization asserts.
C29_TaskContextNew ==
    task_context.op = "new" =>
        /\ task_context.ctx["rdi"] = task_context.entry_point
        /\ task_context.ctx["rbp"] = task_context.stack_top
        /\ task_context.ctx["rsp"] < task_context.stack_top
        /\ task_context.ctx["rip"] # 0
        /\ task_context.ctx["rflags"] = 512

\* C30 as stated: write_index and read_index only ever grow: every
\* successful enqueue makes write_index one larger, every successful
\* dequeue makes read_index one larger, neither index ever decreases, and
\* read_index <= write_index always.
C30_IndicesMonotonic ==
    [][/\ EnqStore => write_index' = write_index + 1
       /\ DeqStore => read_index' = read_index + 1
       /\ write_index' >= write_index
       /\ read_index' >= read_index
       /\ read_index' <= write_index']_vars

\* C30, amended: the indices are counters modulo 2^32 (2^IndexBits here):
\* every successful enqueue advances write_index by one modulo 2^32, every
\* successful dequeue advances read_index by one modulo 2^32, nothing else
\* changes them, and read_index never overtakes write_index:
\* (write_index - read_index) mod 2^32 is the number of messages enqueued
\* and not yet dequeued.
C30_IndicesModular ==
    /\ [][/\ EnqStore => write_index' = (write_index + 1) % (2 ^ IndexBits)
          /\ DeqStore => read_index' = (read_index + 1) % (2 ^ IndexBits)
          /\ write_index' # write_index => (ppc = "store" /\ pres' = "Ok")
          /\ read_index' # read_index => (cpc = "store" /\ cres' = "Some")]_vars
    /\ []((write_index - read_index) % (2 ^ IndexBits) = Len(accepted) - Len(returned))

\* C30 witness: after eight enqueues write_index has wrapped to 0 while
\* read_index is still 7.
C30_Witness ==
    /\ Len(accepted) = 8
    /\ Len(returned) = 7
    /\ write_index = 0
    /\ read_index = 7

\* C31: execute_all_ready terminates; every process it executes is the
\* first Ready one of the table at that moment, goes Ready -> Running ->
\* Exited(return value of its function) and is counted once; when it
\* returns no process is Ready and it returns the number executed.
C31_RunAllReady ==
    /\ [][(pc = "ep_set_running" /\ pc' = "ep_run") =>
            (/\ pid = FirstReady(table)
             /\ StatusTag(pid) = "Ready"
             /\ GetProcessStatus(table', pid) = Running)]_vars
    /\ [][(pc = "ep_set_exited" /\ pc' = "ear_find") =>
            (/\ StatusTag(pid) = "Running"
             /\ GetProcessStatus(table', pid) =
                    Exited(TaskReturn(table[Find(table, pid)].entry_point))
             /\ arg' = arg + 1)]_vars
    /\ [][(pc = "ear_find" /\ pc' = "idle") =>
            (/\ \A k \in 1..Len(table) : table[k].status.tag # "Ready"
             /\ ret' = Result("execute_all_ready", arg))]_vars
    /\ (pc = "ear_find") ~> (pc = "idle")

\* C32: with the thread between two operations, every process whose table
\* status is Ready or Running is in ready_queue or is current_process.
C32_NoRunnableLost ==
    pc = "idle" =>
        \A k \in 1..Len(table) :
            table[k].status.tag \in {"Ready", "Running"} =>
                (Contains(ready_queue, table[k].id) \/ current_process = table[k].id)

\* C33: while the task function of process pid runs inside
\* execute_process(pid), scheduler::current_process() is pid.
C33_CallerIdentity ==
    pc = "ep_run" => current_process = pid

\* C35: the process table never shrinks and keeps its entries in place;
\* its length is the number of successful creates (one pid drawn each);
\* once it holds TableCap entries it stays as it is and every
\* create_process that reaches the capacity check fails.
C35_TableNeverShrinks ==
    /\ [][/\ Len(table') >= Len(table)
          /\ \A k \in 1..Len(table) : table'[k].id = table[k].id]_vars
    /\ [](Len(table) = next_pid - 1)
    /\ [][Len(table) = TableCap =>
            (/\ Len(table') = TableCap
             /\ next_pid' = next_pid
             /\ CreateProcessPush => (pc' = "idle" /\ ret'.val < 0))]_vars

\* C35 witness: create_process has just failed on a full table whose
\* processes have all exited.
C35_Witness ==
    /\ Len(table) = TableCap
    /\ \A k \in 1..Len(table) : table[k].status.tag = "Exited"
    /\ ret = Result("create_process", -2)

C38_EntryInsideImage ==
    (loader.op = "load_binary" /\ loader.result = "Ok") =>
        /\ ~EntryOverflows(loader.parsed, loader.stack_base)
        /\ loader.stack_base <= loader.process.entry_point
        /\ loader.process.entry_point < loader.stack_base + Len(loader.binary)

\* no caller is inside enqueue or dequeue
Quiescent == ppc = "idle" /\ cpc = "idle" /\ second.pc = "idle"

\* the messages in the slots from read_index up to write_index
ResidentMessages ==
    {slots[RingMask(read_index + k)] : k \in 0..(Depth(write_index, read_index) - 1)}

\* C34: with two producers, write_index has advanced once per accepted
\* message, and with nobody inside a call every accepted message is
\* either resident between read_index and write_index or was returned by
\* exactly one dequeue.
C34_TwoProducers ==
    /\ write_index = IndexMask(Len(accepted))
    /\ Quiescent =>
          /\ Len(accepted) = Len(returned) + Depth(write_index, read_index)
          /\ {accepted[i] : i \in 1..Len(accepted)} =
                ResidentMessages \cup {returned[i] : i \in 1..Len(returned)}
          /\ \A i, j \in 1..Len(returned) : returned[i] = returned[j] => i = j

\* C37: a depth() called with nobody inside enqueue or dequeue returns
\* the number of accepted messages minus the number of returned ones, a
\* value in 0..C-1, and is zero exactly when is_empty() holds; is_empty()
\* called then is true exactly when that number is zero.
C37_DepthSnapshot ==
    /\ [][((\E checked \in BOOLEAN : CallDepth(checked)) /\ Quiescent) =>
            (/\ probe'.result = "Ok"
             /\ probe'.value = Resident
             /\ probe'.value \in 0..(RING_BUFFER_SIZE - 1)
             /\ IsEmpty(read_index, write_index) <=> (probe'.value = 0))]_vars
    /\ [][(CallIsEmpty /\ Quiescent) => (probe'.empty <=> (Resident = 0))]_vars

\* C39: every buffer sys_log or sys_write hands to tty_write or
\* tty_write_with_newline is 1 to 4096 bytes long, so tty_write does not
\* panic; no other handler calls them.
C39_TtyWriteNeverPanics ==
    sc.tty.called =>
        /\ sc.handler \in {"sys_log", "sys_write"}
        /\ sc.tty.len \in 1..4096
        /\ sc.tty.result = "Ok"

\* C39 witness: sys_log has handed a buffer of exactly 4096 bytes to
\* tty_write_with_newline.
C39_Witness ==
    /\ sc.handler = "sys_log"
    /\ sc.tty.called
    /\ sc.tty.newline
    /\ sc.tty.len = 4096

====
